---- MODULE Spec2Model ----
(***************************************************************************)
(* Model of database/schema/schema.go: the Schema facade (driver dispatch  *)
(* at construction, connection switching, mutating operations run through  *)
(* the transactional build protocol, and the error-suppressing             *)
(* introspection family).                                                  *)
(*                                                                         *)
(* Strings whose content the code inspects (table names, prefixes, schema  *)
(* names) are sequences of one-character strings, so that splitting at a   *)
(* dot and prepending a prefix are computed as the code computes them.     *)
(***************************************************************************)
EXTENDS Integers, Sequences, FiniteSets, TLC

VARIABLES r, db, tx, ret, log, call, run, own

vars == <<r, db, tx, ret, log, call, run, own>>

-----------------------------------------------------------------------------
(* Bounds *)

MaxLen == 3

MaxListing == 2

MaxCommands == 2

MaxMigrations == 2

-----------------------------------------------------------------------------
(* Strings *)

Dot == "."

Alphabet == {"a", "s", Dot}

RECURSIVE StringsUpTo(_)
StringsUpTo(n) ==
    IF n = 0 THEN {<<>>}
    ELSE LET shorter == StringsUpTo(n - 1)
         IN  shorter \cup {Append(w, c) : w \in shorter, c \in Alphabet}

Names == StringsUpTo(MaxLen) \ {<<>>}

\* strings.Contains(name, ".")
Contains(name, ch) == \E i \in 1..Len(name) : name[i] = ch

\* strings.LastIndex(name, "."): 0-based index of the last occurrence, -1 if none
LastIndex(name, ch) ==
    IF Contains(name, ch)
    THEN (CHOOSE i \in 1..Len(name) :
              /\ name[i] = ch
              /\ \A j \in (i + 1)..Len(name) : name[j] # ch) - 1
    ELSE -1

Public == <<"p", "u", "b", "l", "i", "c">>

-----------------------------------------------------------------------------
(* Errors *)

Nil == [kind |-> "nil"]

SchemaDriverNotSupported(driver) ==
    [kind |-> "SchemaDriverNotSupported", driver |-> driver]

-----------------------------------------------------------------------------
(* Configuration store *)

ConfigStore ==
    [k \in {<<"pg", "driver">>, <<"pg", "prefix">>,
            <<"pgs", "driver">>, <<"pgs", "schema">>,
            <<"my", "driver">>, <<"my", "prefix">>, <<"my", "database">>,
            <<"ms", "driver">>,
            <<"lite", "driver">>, <<"lite", "prefix">>,
            <<"ora", "driver">>, <<"ora", "prefix">>} |->
        CASE k = <<"pg", "driver">>    -> "postgres"
          [] k = <<"pg", "prefix">>    -> <<"a">>
          [] k = <<"pgs", "driver">>   -> "postgres"
          [] k = <<"pgs", "schema">>   -> <<"s">>
          [] k = <<"my", "driver">>    -> "mysql"
          [] k = <<"my", "prefix">>    -> <<"s">>
          [] k = <<"my", "database">>  -> <<"a">>
          [] k = <<"ms", "driver">>    -> "sqlserver"
          [] k = <<"lite", "driver">>  -> "sqlite"
          [] k = <<"lite", "prefix">>  -> <<"a">>
          [] k = <<"ora", "driver">>   -> "oracle"
          [] k = <<"ora", "prefix">>   -> <<"a">>]

Connections == {"pg", "pgs", "my", "ms", "lite", "ora", "none"}

\* config.GetString(key, default)
GetString(config, key, default) ==
    IF key \in DOMAIN config THEN config[key] ELSE default

DriverPostgres == "postgres"
DriverMysql == "mysql"
DriverSqlserver == "sqlserver"
DriverSqlite == "sqlite"

SupportedDrivers == {DriverPostgres, DriverMysql, DriverSqlserver, DriverSqlite}

-----------------------------------------------------------------------------
(* Collaborators built at construction *)

\* orm.Connection(name): a handle on the named connection, outside any transaction
OrmConnection(name) == [name |-> name, inTx |-> FALSE]

\* grammars.NewPostgres(prefix), NewMysql, NewSqlserver, NewSqlite
NewGrammar(dialect, prefix) == [dialect |-> dialect, prefix |-> prefix]

\* processors.NewPostgres(), NewMysql, NewSqlserver, NewSqlite
NewProcessor(dialect) == [dialect |-> dialect]

\* NewPostgresSchema(grammar, orm, schema, prefix); the other three take no schema
NewDriverSchema(dialect, grammar, orm, schema, prefix) ==
    [dialect |-> dialect, grammar |-> grammar, orm |-> orm.name,
     schema |-> schema, prefix |-> prefix]

\* NewCommonSchema(grammar, orm)
NewCommonSchema(grammar, orm) == [grammar |-> grammar, orm |-> orm.name]

Migrations ==
    UNION {[1..n -> {"m1", "m2"}] : n \in 0..MaxMigrations}

-----------------------------------------------------------------------------
(* Construction and connection switching *)

NoSchema == [none |-> TRUE]

\* A NewSchema that falls back to the sqlite dialect instead of panicking
NewSchemaFallback(config, orm, migrations) ==
    LET driver == GetString(config, <<orm.name, "driver">>, "")
        prefix == GetString(config, <<orm.name, "prefix">>, <<>>)
        dialect == IF driver \in SupportedDrivers THEN driver ELSE DriverSqlite
        schema ==
            CASE driver = DriverPostgres ->
                     GetString(config, <<orm.name, "schema">>, Public)
              [] driver = DriverMysql ->
                     GetString(config, <<orm.name, "database">>, <<>>)
              [] OTHER -> <<>>
        grammar == NewGrammar(dialect, prefix)
    IN  [panic |-> FALSE, err |-> Nil,
         schema |->
            [DriverSchema |->
                 NewDriverSchema(dialect, grammar, orm,
                     IF dialect = DriverPostgres THEN schema ELSE <<>>, prefix),
             CommonSchema |-> NewCommonSchema(grammar, orm),
             grammar |-> grammar,
             migrations |-> migrations,
             orm |-> orm,
             prefix |-> prefix,
             processor |-> NewProcessor(dialect),
             schema |-> schema]]

NewSchema(config, orm, migrations) ==
    LET driver == GetString(config, <<orm.name, "driver">>, "")
        prefix == GetString(config, <<orm.name, "prefix">>, <<>>)
        schema ==
            CASE driver = DriverPostgres ->
                     GetString(config, <<orm.name, "schema">>, Public)
              [] driver = DriverMysql ->
                     GetString(config, <<orm.name, "database">>, <<>>)
              [] OTHER -> <<>>
        grammar == NewGrammar(driver, prefix)
    IN  IF driver \notin SupportedDrivers
        THEN [panic |-> TRUE, err |-> SchemaDriverNotSupported(driver),
              schema |-> NoSchema]
        ELSE [panic |-> FALSE, err |-> Nil,
              schema |->
                 [DriverSchema |->
                      NewDriverSchema(driver, grammar, orm,
                          IF driver = DriverPostgres THEN schema ELSE <<>>, prefix),
                  CommonSchema |-> NewCommonSchema(grammar, orm),
                  grammar |-> grammar,
                  migrations |-> migrations,
                  orm |-> orm,
                  prefix |-> prefix,
                  processor |-> NewProcessor(driver),
                  schema |-> schema]]

\* r.GetConnection()
GetConnection(s) == s.orm.name

EmptyDb == [t \in {} |-> {}]

\* No introspection call is being made
NoCall == [op |-> "none"]

\* No mutating operation is in progress
NoRun == [op |-> "none"]

\* The state right after NewSchema(config, log, orm, migrations) on connection c
Constructed(c, migrations) ==
    LET res == NewSchema(ConfigStore, OrmConnection(c), migrations)
    IN  /\ r = res.schema
        /\ ret = [op |-> "NewSchema", name |-> c, panic |-> res.panic,
                  err |-> res.err, schema |-> res.schema]
        /\ db = EmptyDb
        /\ tx = EmptyDb
        /\ log = <<>>
        /\ run = NoRun
        /\ own = EmptyDb

InitConn ==
    /\ \E c \in Connections : Constructed(c, <<>>)
    /\ call = NoCall

\* Connection(name): the caller goes on with the Schema it returns; when
\* NewSchema panics no Schema is returned and the receiver is what it was
Connection(name) ==
    /\ r # NoSchema
    /\ LET res == NewSchema(ConfigStore, OrmConnection(name), r.migrations)
       IN  /\ r' = IF res.panic THEN r ELSE res.schema
           /\ ret' = [op |-> "Connection", name |-> name, panic |-> res.panic,
                      err |-> res.err, schema |-> res.schema]
    /\ UNCHANGED <<db, tx, log, call, run, own>>

SetConnection(name) ==
    /\ r # NoSchema
    /\ r' = [r EXCEPT !.orm = OrmConnection(name)]
    /\ ret' = [op |-> "SetConnection", name |-> name]
    /\ UNCHANGED <<db, tx, log, call, run, own>>

Register(migrations) ==
    /\ r # NoSchema
    /\ r' = [r EXCEPT !.migrations = migrations]
    /\ ret' = [op |-> "Register"]
    /\ UNCHANGED <<db, tx, log, call, run, own>>

NextConn ==
    \/ \E name \in Connections : Connection(name)
    \/ \E name \in Connections : SetConnection(name)
    \/ \E migrations \in Migrations : Register(migrations)

SpecConn == InitConn /\ [][NextConn]_vars

-----------------------------------------------------------------------------
(* The database behind a connection: a table is identified by its name and  *)
(* schema and carries a set of columns.                                     *)

Columns == {"c"}

DbError(msg) == [kind |-> "db", msg |-> msg]

\* The schema an unqualified table name resolves to on the connection
CurrentSchema(s) ==
    CASE s.grammar.dialect = DriverSqlserver -> <<"d", "b", "o">>
      [] s.grammar.dialect = DriverSqlite    -> <<"m", "a", "i", "n">>
      [] OTHER                               -> s.schema

\* The table a name given to the public API denotes: the prefix goes on the
\* table part, the qualifier (if any) names the schema
WrapTable(prefix, current, table) ==
    IF Contains(table, Dot)
    THEN LET lastDotIndex == LastIndex(table, Dot)
         IN  [Name |-> prefix \o SubSeq(table, lastDotIndex + 2, Len(table)),
              Schema |-> SubSeq(table, 1, lastDotIndex)]
    ELSE [Name |-> prefix \o table, Schema |-> current]

\* The table a rename leaves: an unqualified new name stays in the schema of
\* the table renamed
RenameTarget(prefix, current, table, to) ==
    IF Contains(to, Dot)
    THEN WrapTable(prefix, current, to)
    ELSE [Name |-> prefix \o to, Schema |-> WrapTable(prefix, current, table).Schema]

WithTable(d, id, cols) ==
    [t \in DOMAIN d \cup {id} |-> IF t = id THEN cols ELSE d[t]]

WithoutTable(d, id) == [t \in DOMAIN d \ {id} |-> d[t]]

RECURSIVE ToSet(_)
ToSet(seq) == IF seq = <<>> THEN {} ELSE {Head(seq)} \cup ToSet(Tail(seq))

\* One compiled statement run by the query engine: the database it leaves
\* and the error it returns.  fault says that the engine itself fails on this
\* statement (the connection is lost), whatever the statement is.
ExecStmt(d, stmt, fault) ==
    LET id == stmt.table
        fail(msg) == [db |-> d, err |-> DbError(msg)]
        ok(e) == [db |-> e, err |-> Nil]
    IN  CASE fault -> fail("connection lost")
          [] stmt.kind = "create" ->
                 IF id \in DOMAIN d THEN fail("table exists")
                 ELSE ok(WithTable(d, id, {}))
          [] stmt.kind = "drop" ->
                 IF id \notin DOMAIN d THEN fail("no such table")
                 ELSE ok(WithoutTable(d, id))
          [] stmt.kind = "dropIfExists" -> ok(WithoutTable(d, id))
          [] stmt.kind = "rename" ->
                 IF id \notin DOMAIN d THEN fail("no such table")
                 ELSE IF stmt.to.Schema # id.Schema THEN fail("cannot move to another schema")
                 ELSE IF stmt.to \in DOMAIN d THEN fail("table exists")
                 ELSE ok(WithTable(WithoutTable(d, id), stmt.to, d[id]))
          [] stmt.kind = "add" ->
                 IF id \notin DOMAIN d THEN fail("no such table")
                 ELSE IF ToSet(stmt.columns) \cap d[id] # {} THEN fail("column exists")
                 ELSE ok(WithTable(d, id, d[id] \cup ToSet(stmt.columns)))
          [] stmt.kind = "dropColumn" ->
                 IF id \notin DOMAIN d THEN fail("no such table")
                 ELSE IF ~(ToSet(stmt.columns) \subseteq d[id]) THEN fail("no such column")
                 ELSE ok(WithTable(d, id, d[id] \ ToSet(stmt.columns)))

-----------------------------------------------------------------------------
(* Blueprint *)

Command(name, columns, to) == [name |-> name, columns |-> columns, to |-> to]

NewBlueprint(s, prefix, table) ==
    [prefix |-> prefix, table |-> table, commands |-> <<>>]

AddCommand(blueprint, command) ==
    [blueprint EXCEPT !.commands = Append(@, command)]

BlueprintCreate(blueprint) == AddCommand(blueprint, Command("create", <<>>, <<>>))

BlueprintDrop(blueprint) == AddCommand(blueprint, Command("drop", <<>>, <<>>))

BlueprintDropIfExists(blueprint) ==
    AddCommand(blueprint, Command("dropIfExists", <<>>, <<>>))

BlueprintRename(blueprint, to) == AddCommand(blueprint, Command("rename", <<>>, to))

BlueprintDropColumn(blueprint, columns) ==
    AddCommand(blueprint, Command("dropColumn", columns, <<>>))

\* The new names a callback hands to blueprint.Rename
CallbackRenames == {<<"s">>}

\* What a caller's callback may do to the blueprint it is handed: it gets the
\* same Blueprint the operations themselves use, so besides adding and
\* dropping columns it can call Create, Drop, DropIfExists and Rename on it
CallbackCommands ==
    {Command("add", <<c>>, <<>>) : c \in Columns}
        \cup {Command("dropColumn", <<c>>, <<>>) : c \in Columns}
        \cup {Command(name, <<>>, <<>>) : name \in {"create", "drop", "dropIfExists"}}
        \cup {Command("rename", <<>>, to) : to \in CallbackRenames}

Callbacks == UNION {[1..n -> CallbackCommands] : n \in 0..MaxCommands}

ApplyCallback(blueprint, callback) ==
    [blueprint EXCEPT !.commands = @ \o callback]

\* The statements the grammar compiles a blueprint into, in command order
\* (the table-level action is always the first command)
ToSql(blueprint, grammar, current) ==
    [i \in 1..Len(blueprint.commands) |->
        LET command == blueprint.commands[i]
        IN  [kind |-> command.name,
             table |-> WrapTable(blueprint.prefix, current, blueprint.table),
             columns |-> command.columns,
             to |-> IF command.name = "rename"
                    THEN RenameTarget(blueprint.prefix, current, blueprint.table,
                                      command.to)
                    ELSE <<>>]]

-----------------------------------------------------------------------------
(* Transactional build protocol.  A mutating operation is not one step: it *)
(* prepares its blueprint, then build makes one blocking round trip to the *)
(* database after the other (begin, each statement, commit or rollback),   *)
(* holding no lock of its own, and then returns.  run is the call in       *)
(* progress, own what the transaction build opened sees.                   *)

\* What the handle r.orm.Query() reads and writes
Visible == IF r.orm.inTx THEN tx ELSE db

\* The build run straight on the handle, whatever its transaction state
buildDirect(s, blueprint) ==
    [transaction |-> FALSE,
     statements |-> ToSql(blueprint, s.grammar, CurrentSchema(s))]

\* The build always wrapped in a transaction of its own
buildNested(s, blueprint) ==
    [transaction |-> TRUE,
     statements |-> ToSql(blueprint, s.grammar, CurrentSchema(s))]

\* build: inside a transaction the blueprint is built on r.orm.Query(),
\* otherwise inside r.orm.Transaction; either way with r.grammar
build(s, blueprint) ==
    IF s.orm.inTx
    THEN [transaction |-> FALSE,
          statements |-> ToSql(blueprint, s.grammar, CurrentSchema(s))]
    ELSE [transaction |-> TRUE,
          statements |-> ToSql(blueprint, s.grammar, CurrentSchema(s))]

createBlueprint(s, table) == NewBlueprint(s, s.prefix, table)

-----------------------------------------------------------------------------
(* Mutating operations *)

SchemaFailedToCreateTable(table, err) ==
    [kind |-> "SchemaFailedToCreateTable", table |-> table, cause |-> err]

SchemaFailedToDropTable(table, err) ==
    [kind |-> "SchemaFailedToDropTable", table |-> table, cause |-> err]

SchemaFailedToDropColumns(table, err) ==
    [kind |-> "SchemaFailedToDropColumns", table |-> table, cause |-> err]

SchemaFailedToRenameTable(table, err) ==
    [kind |-> "SchemaFailedToRenameTable", table |-> table, cause |-> err]

SchemaFailedToChangeTable(table, err) ==
    [kind |-> "SchemaFailedToChangeTable", table |-> table, cause |-> err]

TableArgs == {<<"a">>, <<"s">>, <<"s", Dot, "a">>}

MutatingOps == {"Create", "Table", "Drop", "DropIfExists", "DropColumns", "Rename"}

\* The operations whose call ret records until the caller has taken the result
Calls == MutatingOps \cup {"Sql", "GetForeignKeys"}

\* The caller whose calls ret records has taken the result of its last one
Idle == ret.op \notin Calls

\* The caller takes the result of the call it made
Return ==
    /\ ~Idle
    /\ ret' = [op |-> "Return"]
    /\ UNCHANGED <<r, db, tx, log, call, run, own>>

\* What a mutating operation returns once build has returned: nil, or the
\* operation's error around build's
Result(frame, committed, rolledBack) ==
    [op |-> frame.op, table |-> frame.table, to |-> frame.to,
     callback |-> frame.callback, columns |-> frame.columns,
     err |-> IF frame.err # Nil THEN [frame.failure EXCEPT !.cause = frame.err]
             ELSE Nil,
     buildErr |-> frame.err, failedAt |-> frame.failedAt,
     n |-> Len(frame.statements), began |-> frame.began,
     committed |-> committed, rolledBack |-> rolledBack, inTx |-> frame.inTx,
     alone |-> frame.alone]

\* A mutating operation up to build's first round trip: the blueprint is
\* ready, build has read InTransaction and taken its handle.  failure is the
\* error the operation will wrap build's error in.  The frame remembers
\* what the handle saw at the call (before) for as long as the call is the
\* only one at work on the database (alone).
Enter(op, table, to, callback, columns, plan, failure) ==
    /\ run' = [op |-> op, table |-> table, to |-> to, callback |-> callback,
               columns |-> columns, failure |-> failure,
               inTx |-> r.orm.inTx, transaction |-> plan.transaction,
               statements |-> plan.statements,
               pc |-> IF plan.transaction THEN "begin"
                      ELSE IF plan.statements = <<>> THEN "end" ELSE "exec",
               i |-> 1, err |-> Nil, failedAt |-> 0, began |-> FALSE,
               before |-> Visible, alone |-> TRUE]
    /\ UNCHANGED <<r, db, tx, ret, own, log, call>>

\* The call in progress, if any, once someone else has acted on the database
Disturbed(frame) ==
    IF frame = NoRun THEN frame
    ELSE [frame EXCEPT !.alone = FALSE, !.before = EmptyDb]

Create(table, callback) ==
    /\ r # NoSchema
    /\ Idle
    /\ run = NoRun
    /\ LET blueprint == ApplyCallback(BlueprintCreate(createBlueprint(r, table)),
                                      callback)
       IN  Enter("Create", table, <<>>, callback, <<>>, build(r, blueprint),
                 SchemaFailedToCreateTable(table, Nil))

\* A Drop that compiles to a drop-if-exists
DropLenient(table) ==
    /\ r # NoSchema
    /\ Idle
    /\ run = NoRun
    /\ LET blueprint == BlueprintDropIfExists(createBlueprint(r, table))
       IN  Enter("Drop", table, <<>>, <<>>, <<>>, build(r, blueprint),
                 SchemaFailedToDropTable(table, Nil))

Drop(table) ==
    /\ r # NoSchema
    /\ Idle
    /\ run = NoRun
    /\ LET blueprint == BlueprintDrop(createBlueprint(r, table))
       IN  Enter("Drop", table, <<>>, <<>>, <<>>, build(r, blueprint),
                 SchemaFailedToDropTable(table, Nil))

DropColumns(table, columns) ==
    /\ r # NoSchema
    /\ Idle
    /\ run = NoRun
    /\ LET blueprint == BlueprintDropColumn(createBlueprint(r, table), columns)
       IN  Enter("DropColumns", table, <<>>, <<>>, columns, build(r, blueprint),
                 SchemaFailedToDropColumns(table, Nil))

\* A DropIfExists that reports its failure as Table does
DropIfExistsAsChange(table) ==
    /\ r # NoSchema
    /\ Idle
    /\ run = NoRun
    /\ LET blueprint == BlueprintDropIfExists(createBlueprint(r, table))
       IN  Enter("DropIfExists", table, <<>>, <<>>, <<>>, build(r, blueprint),
                 SchemaFailedToChangeTable(table, Nil))

DropIfExists(table) ==
    /\ r # NoSchema
    /\ Idle
    /\ run = NoRun
    /\ LET blueprint == BlueprintDropIfExists(createBlueprint(r, table))
       IN  Enter("DropIfExists", table, <<>>, <<>>, <<>>, build(r, blueprint),
                 SchemaFailedToDropTable(table, Nil))

\* A Rename that renames `to` into `from`
RenameSwapped(from, to) ==
    /\ r # NoSchema
    /\ Idle
    /\ run = NoRun
    /\ LET blueprint == BlueprintRename(createBlueprint(r, to), from)
       IN  Enter("Rename", from, to, <<>>, <<>>, build(r, blueprint),
                 SchemaFailedToRenameTable(from, Nil))

Rename(from, to) ==
    /\ r # NoSchema
    /\ Idle
    /\ run = NoRun
    /\ LET blueprint == BlueprintRename(createBlueprint(r, from), to)
       IN  Enter("Rename", from, to, <<>>, <<>>, build(r, blueprint),
                 SchemaFailedToRenameTable(from, Nil))

Table(table, callback) ==
    /\ r # NoSchema
    /\ Idle
    /\ run = NoRun
    /\ LET blueprint == ApplyCallback(createBlueprint(r, table), callback)
       IN  Enter("Table", table, <<>>, callback, <<>>, build(r, blueprint),
                 SchemaFailedToChangeTable(table, Nil))

-----------------------------------------------------------------------------
(* The round trips of a build *)

\* The transaction build opened is open
Open == run # NoRun /\ run.transaction /\ run.pc \in {"exec", "end"}

\* The tables a statement touches
Touched(stmt) ==
    {stmt.table} \cup (IF stmt.kind = "rename" THEN {stmt.to} ELSE {})

\* The tables the open transaction holds: those its statements have touched
\* so far.  The database makes a statement of anyone else on them wait.
Locked ==
    IF Open
    THEN LET done == IF run.err = Nil THEN run.i - 1 ELSE run.failedAt - 1
         IN  UNION {Touched(run.statements[k]) : k \in 1..done}
    ELSE {}

\* r.orm.Transaction begins: the transaction sees what the handle sees
BuildBegin ==
    /\ run # NoRun
    /\ run.pc = "begin"
    /\ own' = IF run.inTx THEN tx ELSE db
    /\ run' = [run EXCEPT !.began = TRUE,
                          !.pc = IF run.statements = <<>> THEN "end" ELSE "exec"]
    /\ UNCHANGED <<r, db, tx, ret, log, call>>

\* Blueprint.Build sends its next statement; it stops at the first that
\* fails.  A handle whose transaction the caller has ended meanwhile takes
\* no statement any more.
BuildExec(fault) ==
    /\ run # NoRun
    /\ run.pc = "exec"
    /\ LET stmt == run.statements[run.i]
           onTx == ~run.transaction /\ run.inTx
           d == IF run.transaction THEN own ELSE IF run.inTx THEN tx ELSE db
           res == IF onTx /\ ~r.orm.inTx
                  THEN [db |-> d, err |-> DbError("transaction done")]
                  ELSE ExecStmt(d, stmt, fault)
           last == res.err # Nil \/ run.i = Len(run.statements)
           frame == [run EXCEPT !.err = res.err,
                                !.failedAt = IF res.err # Nil THEN run.i ELSE 0,
                                !.i = IF res.err # Nil THEN run.i ELSE run.i + 1]
       IN  /\ own' = IF run.transaction THEN res.db ELSE own
           /\ tx' = IF onTx THEN res.db ELSE tx
           /\ db' = IF ~run.transaction /\ ~run.inTx THEN res.db ELSE db
           /\ run' = [frame EXCEPT !.pc = IF last THEN "end" ELSE "exec"]
    /\ UNCHANGED <<r, ret, log, call>>

\* build returns and the operation with it.  r.orm.Transaction first ends
\* the transaction it opened: commit when the build returned nil, rollback
\* otherwise; on the caller's handle there is nothing to end.
BuildEnd ==
    /\ run # NoRun
    /\ run.pc = "end"
    /\ db' = IF run.transaction /\ run.err = Nil /\ ~run.inTx THEN own ELSE db
    /\ tx' = IF run.transaction /\ run.err = Nil /\ run.inTx THEN own ELSE tx
    /\ own' = EmptyDb
    /\ ret' = Result(run, run.transaction /\ run.err = Nil,
                     run.transaction /\ run.err # Nil)
    /\ run' = NoRun
    /\ UNCHANGED <<r, log, call>>

-----------------------------------------------------------------------------
(* Raw SQL and foreign keys *)

\* The raw statements a caller hands to Sql: they name their table in full
SqlStatements ==
    {[kind |-> k, table |-> [Name |-> <<"a">>, Schema |-> <<"s">>],
      columns |-> <<>>, to |-> <<>>] : k \in {"create", "drop"}}

Sql(sql, fault) ==
    /\ r # NoSchema
    /\ Idle
    /\ run = NoRun
    /\ LET res == ExecStmt(Visible, sql, fault)
           err == res.err
       IN  /\ db' = IF r.orm.inTx THEN db ELSE res.db
           /\ tx' = IF r.orm.inTx THEN res.db ELSE tx
           /\ ret' = [op |-> "Sql", sql |-> sql, engineErr |-> res.err,
                      err |-> err, inTx |-> r.orm.inTx]
    /\ UNCHANGED <<r, log, call, run, own>>

\* Sql called on the same Schema by another goroutine while a mutating
\* operation is between two round trips; its result goes to that caller
\* (a failed statement leaves everything as it is).  A statement on a table
\* the open transaction holds waits.
OtherSql(sql) ==
    /\ r # NoSchema
    /\ Idle
    /\ run # NoRun
    /\ sql.table \notin Locked
    /\ LET res == ExecStmt(Visible, sql, FALSE)
       IN  /\ res.err = Nil
           /\ db' = IF r.orm.inTx THEN db ELSE res.db
           /\ tx' = IF r.orm.inTx THEN res.db ELSE tx
           /\ own' = IF Open THEN ExecStmt(own, sql, FALSE).db ELSE own
           /\ run' = Disturbed(run)
    /\ UNCHANGED <<r, ret, log, call>>

\* What Raw(sql).Scan(&dbForeignKeys) can answer
ScanResponses ==
    {[err |-> DbError("connection lost"), rows |-> <<>>],
     [err |-> DbError("no such table"), rows |-> <<>>],
     [err |-> Nil, rows |-> <<>>],
     [err |-> Nil, rows |-> <<[name |-> "fk", columns |-> <<"c">>]>>]}

\* grammar.CompileForeignKeys(schema, table)
CompileForeignKeys(grammar, schema, table) ==
    [query |-> "foreign keys", dialect |-> grammar.dialect, schema |-> schema,
     table |-> table]

\* processor.ProcessForeignKeys(dbForeignKeys)
ProcessForeignKeys(processor, dbForeignKeys) ==
    [i \in 1..Len(dbForeignKeys) |->
        [Name |-> dbForeignKeys[i].name, Columns |-> dbForeignKeys[i].columns]]

GetForeignKeys(table, response) ==
    /\ r # NoSchema
    /\ Idle
    /\ run = NoRun
    /\ LET prefixed == r.prefix \o table
           query == CompileForeignKeys(r.grammar, r.schema, prefixed)
       IN  ret' = [op |-> "GetForeignKeys", table |-> table, query |-> query,
                   engineErr |-> response.err,
                   val |-> IF response.err # Nil THEN <<>>
                           ELSE ProcessForeignKeys(r.processor, response.rows),
                   err |-> IF response.err # Nil THEN response.err ELSE Nil]
    /\ UNCHANGED <<r, db, tx, log, call, run, own>>

-----------------------------------------------------------------------------
(* The caller's own transaction on the query handle.  It is begun between  *)
(* two mutating operations; it can be ended at any time, also while one is *)
(* between two round trips.                                                *)

Begin ==
    /\ r # NoSchema
    /\ Idle
    /\ run = NoRun
    /\ ~r.orm.inTx
    /\ r' = [r EXCEPT !.orm.inTx = TRUE]
    /\ tx' = db
    /\ ret' = [op |-> "Begin"]
    /\ UNCHANGED <<db, log, call, run, own>>

Commit ==
    /\ r # NoSchema
    /\ Idle
    /\ r.orm.inTx
    /\ r' = [r EXCEPT !.orm.inTx = FALSE]
    /\ db' = tx
    /\ tx' = EmptyDb
    /\ ret' = [op |-> "Commit"]
    /\ run' = Disturbed(run)
    /\ UNCHANGED <<log, call, own>>

Rollback ==
    /\ r # NoSchema
    /\ Idle
    /\ r.orm.inTx
    /\ r' = [r EXCEPT !.orm.inTx = FALSE]
    /\ tx' = EmptyDb
    /\ ret' = [op |-> "Rollback"]
    /\ run' = Disturbed(run)
    /\ UNCHANGED <<db, log, call, own>>

Init ==
    /\ \E c \in {"pg", "pgs"} : Constructed(c, <<>>)
    /\ r # NoSchema
    /\ call = NoCall

InitTx ==
    /\ \E c \in {"lite"} : Constructed(c, <<>>)
    /\ r # NoSchema
    /\ call = NoCall

\* A call is made when the caller is between two calls
Callable == Idle /\ run = NoRun

Next ==
    \/ Callable /\ \E table \in TableArgs, callback \in Callbacks :
           Create(table, callback)
    \/ Callable /\ \E table \in TableArgs, callback \in Callbacks :
           Table(table, callback)
    \/ Callable /\ \E table \in TableArgs : Drop(table)
    \/ Callable /\ \E table \in TableArgs : DropIfExists(table)
    \/ Callable /\ \E table \in TableArgs, c \in Columns : DropColumns(table, <<c>>)
    \/ Callable /\ \E from \in TableArgs, to \in TableArgs : Rename(from, to)
    \/ Callable /\ \E sql \in SqlStatements, fault \in BOOLEAN : Sql(sql, fault)
    \/ Callable /\ \E table \in TableArgs, response \in ScanResponses :
           GetForeignKeys(table, response)
    \/ BuildBegin
    \/ \E fault \in BOOLEAN : BuildExec(fault)
    \/ BuildEnd
    \/ \E sql \in SqlStatements : OtherSql(sql)
    \/ Return

\* The mutating operations called outside any caller-managed transaction
Spec == Init /\ [][Next]_vars

TxTableArgs == {<<"a">>, <<"s">>}

NextTx ==
    \/ Begin
    \/ Commit
    \/ Rollback
    \/ Callable /\ \E table \in TxTableArgs, callback \in Callbacks :
           Create(table, callback)
    \/ Callable /\ \E table \in TxTableArgs, callback \in Callbacks :
           Table(table, callback)
    \/ Callable /\ \E table \in TxTableArgs : Drop(table)
    \/ Callable /\ \E table \in TxTableArgs : DropIfExists(table)
    \/ Callable /\ \E table \in TxTableArgs, c \in Columns :
           DropColumns(table, <<c>>)
    \/ Callable /\ \E from \in TxTableArgs, to \in TxTableArgs : Rename(from, to)
    \/ Callable /\ \E sql \in SqlStatements, fault \in BOOLEAN : Sql(sql, fault)
    \/ BuildBegin
    \/ \E fault \in BOOLEAN : BuildExec(fault)
    \/ BuildEnd
    \/ \E sql \in SqlStatements : OtherSql(sql)
    \/ Return

\* The same operations interleaved with a transaction the caller manages
SpecTx == InitTx /\ [][NextTx]_vars

-----------------------------------------------------------------------------
(* Introspection: the error-suppressing family.  Each operator takes what  *)
(* the underlying DriverSchema call answered and gives the value returned  *)
(* and the messages sent to the logging sink.                              *)

\* log.Errorf(format, args...); HasTable, HasType and HasView hand it the
\* text of a SchemaFailedToGetTables error as the format, with no arguments
Errorf(format, args) == [format |-> format, args |-> args]

SchemaFailedToGetTables(connection, err) ==
    [kind |-> "SchemaFailedToGetTables", connection |-> connection, cause |-> err]

\* The Name fields of a listing, in order
NamesOf(listing) == [i \in 1..Len(listing) |-> listing[i].Name]

\* A GetColumnListing that hands back whatever GetColumns gave, error or not
GetColumnListingUnchecked(s, table, response) ==
    [val |-> NamesOf(response.val), logs |-> <<>>]

GetColumnListing(s, table, response) ==
    IF response.err # Nil
    THEN [val |-> <<>>,
          logs |-> <<Errorf("failed to get %s columns: %v", <<table, response.err>>)>>]
    ELSE [val |-> NamesOf(response.val), logs |-> <<>>]

GetIndexListing(s, table, response) ==
    IF response.err # Nil
    THEN [val |-> <<>>,
          logs |-> <<Errorf("failed to get %s indexes: %v", <<table, response.err>>)>>]
    ELSE [val |-> NamesOf(response.val), logs |-> <<>>]

GetTableListing(s, response) ==
    IF response.err # Nil
    THEN [val |-> <<>>,
          logs |-> <<Errorf("failed to get tables: %v", <<response.err>>)>>]
    ELSE [val |-> NamesOf(response.val), logs |-> <<>>]

HasColumn(s, table, column, response) ==
    LET listing == GetColumnListing(s, table, response)
    IN  [val |-> Contains(listing.val, column), logs |-> listing.logs]

HasColumns(s, table, columns, response) ==
    LET columnListing == GetColumnListing(s, table, response)
    IN  [val |-> \A i \in 1..Len(columns) : Contains(columnListing.val, columns[i]),
         logs |-> columnListing.logs]

HasIndex(s, table, index, response) ==
    LET indexListing == GetIndexListing(s, table, response)
    IN  [val |-> Contains(indexListing.val, index), logs |-> indexListing.logs]

\* A HasTable that looks the table part up without the prefix
HasTableNoPrefix(s, name, response) ==
    LET lastDotIndex == LastIndex(name, Dot)
        schema == IF Contains(name, Dot) THEN SubSeq(name, 1, lastDotIndex) ELSE <<>>
        tableName == IF Contains(name, Dot)
                     THEN SubSeq(name, lastDotIndex + 2, Len(name))
                     ELSE name
    IN  IF response.err # Nil
        THEN [val |-> FALSE,
              logs |-> <<Errorf(SchemaFailedToGetTables(s.orm.name, response.err),
                                <<>>)>>]
        ELSE [val |-> \E i \in 1..Len(response.val) :
                          /\ response.val[i].Name = tableName
                          /\ (schema = <<>> \/ schema = response.val[i].Schema),
              logs |-> <<>>]

\* A HasTable that prefixes the whole name before looking at the qualifier
HasTablePrefixFirst(s, name, response) ==
    LET full == s.prefix \o name
        lastDotIndex == LastIndex(full, Dot)
        schema == IF Contains(full, Dot) THEN SubSeq(full, 1, lastDotIndex) ELSE <<>>
        tableName == IF Contains(full, Dot)
                     THEN SubSeq(full, lastDotIndex + 2, Len(full))
                     ELSE full
    IN  IF response.err # Nil
        THEN [val |-> FALSE,
              logs |-> <<Errorf(SchemaFailedToGetTables(s.orm.name, response.err),
                                <<>>)>>]
        ELSE [val |-> \E i \in 1..Len(response.val) :
                          /\ response.val[i].Name = tableName
                          /\ (schema = <<>> \/ schema = response.val[i].Schema),
              logs |-> <<>>]

HasTable(s, name, response) ==
    LET lastDotIndex == LastIndex(name, Dot)
        schema == IF Contains(name, Dot) THEN SubSeq(name, 1, lastDotIndex) ELSE <<>>
        base == IF Contains(name, Dot)
                THEN SubSeq(name, lastDotIndex + 2, Len(name))
                ELSE name
        tableName == s.prefix \o base
    IN  IF response.err # Nil
        THEN [val |-> FALSE,
              logs |-> <<Errorf(SchemaFailedToGetTables(s.orm.name, response.err),
                                <<>>)>>]
        ELSE [val |-> \E i \in 1..Len(response.val) :
                          /\ response.val[i].Name = tableName
                          /\ (schema = <<>> \/ schema = response.val[i].Schema),
              logs |-> <<>>]

HasType(s, name, response) ==
    IF response.err # Nil
    THEN [val |-> FALSE,
          logs |-> <<Errorf(SchemaFailedToGetTables(s.orm.name, response.err),
                            <<>>)>>]
    ELSE [val |-> \E i \in 1..Len(response.val) : response.val[i].Name = name,
          logs |-> <<>>]

HasView(s, name, response) ==
    IF response.err # Nil
    THEN [val |-> FALSE,
          logs |-> <<Errorf(SchemaFailedToGetTables(s.orm.name, response.err),
                            <<>>)>>]
    ELSE [val |-> \E i \in 1..Len(response.val) : response.val[i].Name = name,
          logs |-> <<>>]

-----------------------------------------------------------------------------
(* What the DriverSchema calls can answer *)

IntrospectionErrors == {DbError("connection lost"), DbError("no such table")}

Failed(response) == response.err # Nil

\* Every answer: a failure, or a listing of at most n entries drawn from universe
Responses(universe, n) ==
    {[err |-> e, val |-> <<>>] : e \in IntrospectionErrors}
        \cup {[err |-> Nil, val |-> l] : l \in UNION {[1..k -> universe] : k \in 0..n}}

ColumnNames == {"c", "d"}

NamedEntries == {[Name |-> n] : n \in ColumnNames}

TableUniverse ==
    {[Name |-> n, Schema |-> sc] :
        n \in {<<"a">>, <<"a", "a">>, <<"s", "a">>}, sc \in {Public, <<"s">>}}

ColumnLists == UNION {[1..k -> ColumnNames] : k \in 0..MaxListing}

\* DriverSchema.GetTables on a handle whose database is d
RECURSIVE SeqOf(_)
SeqOf(set) ==
    IF set = {} THEN <<>>
    ELSE LET x == CHOOSE x \in set : TRUE
         IN  <<x>> \o SeqOf(set \ {x})

GetTables(s, d) == [err |-> Nil, val |-> SeqOf(DOMAIN d)]

-----------------------------------------------------------------------------
(* One introspection call: Init draws the call and the collaborator's      *)
(* answer, the action makes it.                                            *)

Answer(op, res) ==
    /\ ret' = [op |-> op, call |-> call, val |-> res.val, logs |-> res.logs]
    /\ log' = log \o res.logs
    /\ call' = NoCall
    /\ UNCHANGED <<r, db, tx, run, own>>

CallGetColumnListing ==
    /\ call.op = "GetColumnListing"
    /\ Answer(call.op, GetColumnListing(r, call.table, call.response))

CallGetIndexListing ==
    /\ call.op = "GetIndexListing"
    /\ Answer(call.op, GetIndexListing(r, call.table, call.response))

CallGetTableListing ==
    /\ call.op = "GetTableListing"
    /\ Answer(call.op, GetTableListing(r, call.response))

CallHasColumn ==
    /\ call.op = "HasColumn"
    /\ Answer(call.op, HasColumn(r, call.table, call.name, call.response))

CallHasColumns ==
    /\ call.op = "HasColumns"
    /\ Answer(call.op, HasColumns(r, call.table, call.columns, call.response))

CallHasIndex ==
    /\ call.op = "HasIndex"
    /\ Answer(call.op, HasIndex(r, call.table, call.name, call.response))

CallHasTable ==
    /\ call.op = "HasTable"
    /\ Answer(call.op, HasTable(r, call.name, call.response))

CallHasType ==
    /\ call.op = "HasType"
    /\ Answer(call.op, HasType(r, call.name, call.response))

CallHasView ==
    /\ call.op = "HasView"
    /\ Answer(call.op, HasView(r, call.name, call.response))

NamedResponses == Responses(NamedEntries, MaxListing)

InitIntro ==
    /\ \E c \in Connections : Constructed(c, <<>>)
    /\ r # NoSchema
    /\ \/ \E op \in {"GetColumnListing", "GetIndexListing"},
             table \in TableArgs, response \in NamedResponses :
               call = [op |-> op, table |-> table, response |-> response]
       \/ \E response \in Responses(TableUniverse, MaxListing) :
               call = [op |-> "GetTableListing", response |-> response]
       \/ \E op \in {"HasColumn", "HasIndex"}, table \in TableArgs,
             name \in ColumnNames, response \in NamedResponses :
               call = [op |-> op, table |-> table, name |-> name,
                       response |-> response]
       \/ \E table \in TableArgs, columns \in ColumnLists,
             response \in NamedResponses :
               call = [op |-> "HasColumns", table |-> table, columns |-> columns,
                       response |-> response]
       \/ \E name \in Names, response \in Responses(TableUniverse, MaxListing) :
               call = [op |-> "HasTable", name |-> name, response |-> response]
       \/ \E op \in {"HasType", "HasView"}, name \in ColumnNames,
             response \in NamedResponses :
               call = [op |-> op, name |-> name, response |-> response]

NextIntro ==
    \/ CallGetColumnListing
    \/ CallGetIndexListing
    \/ CallGetTableListing
    \/ CallHasColumn
    \/ CallHasColumns
    \/ CallHasIndex
    \/ CallHasTable
    \/ CallHasType
    \/ CallHasView

\* The introspection operations, each on every answer of its collaborator
SpecIntro == InitIntro /\ [][NextIntro]_vars

-----------------------------------------------------------------------------
(* Properties *)

\* The blueprint a recorded mutating call built, and what it compiles to
BlueprintOf(s, c) ==
    LET blueprint == [prefix |-> s.prefix, table |-> c.table, commands |-> <<>>]
        with(first) == [blueprint EXCEPT !.commands = first \o c.callback]
    IN  CASE c.op = "Create"       -> with(<<Command("create", <<>>, <<>>)>>)
          [] c.op = "Table"        -> with(<<>>)
          [] c.op = "Drop"         -> with(<<Command("drop", <<>>, <<>>)>>)
          [] c.op = "DropIfExists" -> with(<<Command("dropIfExists", <<>>, <<>>)>>)
          [] c.op = "DropColumns"  -> with(<<Command("dropColumn", c.columns, <<>>)>>)
          [] c.op = "Rename"       -> with(<<Command("rename", <<>>, c.to)>>)

StatementsOf(s, c) == ToSql(BlueprintOf(s, c), s.grammar, CurrentSchema(s))

\* HasTable(name) asked of Schema s when its handle sees database d
HasIn(s, d, name) == HasTable(s, name, GetTables(s, d)).val

\* HasTable(name) asked of the Schema right now
Has(name) == HasIn(r, Visible, name)

\* The table a name denotes for the Schema
Denoted(name) == WrapTable(r.prefix, CurrentSchema(r), name)

\* The name is unqualified and in d a table of the same prefixed name stands
\* in another schema than the one the name denotes
HomonymIn(d, name) ==
    /\ ~Contains(name, Dot)
    /\ \E id \in DOMAIN d :
           /\ id.Name = Denoted(name).Name
           /\ id.Schema # Denoted(name).Schema

\* The error the engine gives when it fails by itself
ConnectionLost == DbError("connection lost")

\* The position of the statement the engine failed on by itself in a recorded
\* mutating call (0: none)
FaultOf(c) == IF c.buildErr = ConnectionLost THEN c.failedAt ELSE 0

\* The statements run one after the other on d from the i-th on, stopping at
\* the first that fails; fault is the position of the statement the engine
\* fails on (0: none)
RECURSIVE Run(_, _, _, _)
Run(d, statements, i, fault) ==
    IF i > Len(statements)
    THEN [db |-> d, err |-> Nil, failedAt |-> 0]
    ELSE LET res == ExecStmt(d, statements[i], i = fault)
         IN  IF res.err # Nil
             THEN [db |-> res.db, err |-> res.err, failedAt |-> i]
             ELSE Run(res.db, statements, i + 1, fault)

\* This step is a round trip, or the return, of the call in progress
BuildStep ==
    /\ run # NoRun
    /\ \/ run' = NoRun
       \/ run'.pc # run.pc
       \/ run'.i # run.i

\* This step is the return of the call in progress
Returning == run # NoRun /\ run' = NoRun

\* C1: a mutating operation called outside a transaction is all-or-nothing:
\* build opens a transaction of its own and nothing it does shows in the
\* database before it ends; when the build fails at statement k of n
\* (1 <= k <= n) the transaction is rolled back and the database is what it
\* was before the call; when all n statements succeed they are all
\* committed.  (Before and after the call are compared for a call that was
\* alone at work; with other callers in between, the database the call
\* leaves is theirs plus, on success only, its own statements.)
C1_AtomicBuild ==
    [][(BuildStep /\ ~run.inTx) =>
          /\ run.transaction
          /\ IF ~Returning
             THEN db' = db
             ELSE LET statements == StatementsOf(r, ret')
                      all == Run(run.before, statements, 1, FaultOf(ret'))
                  IN  /\ ret'.op \in MutatingOps
                      /\ ret'.n = Len(statements)
                      /\ ret'.began
                      /\ IF ret'.err # Nil
                         THEN /\ ret'.failedAt \in 1..ret'.n
                              /\ ret'.rolledBack /\ ~ret'.committed
                              /\ db' = db
                              /\ run.alone => /\ ret'.failedAt = all.failedAt
                                              /\ db' = run.before
                         ELSE /\ ret'.committed /\ ~ret'.rolledBack
                              /\ db' = own
                              /\ run.alone => /\ all.err = Nil
                                              /\ db' = all.db]_vars

\* A build outside a transaction, alone at work, failed on its second of
\* three statements and was rolled back
C1_Witness ==
    /\ ret.op \in MutatingOps
    /\ ~ret.inTx
    /\ ret.alone
    /\ ret.n = 3
    /\ ret.failedAt = 2
    /\ ret.rolledBack
    /\ db # EmptyDb

\* C2: a mutating operation called inside a caller-managed transaction opens
\* no transaction and neither commits nor rolls back: the statements run
\* one by one on the caller's handle, a failure is returned as an error, the
\* transaction stays open with the statements run before the failure still
\* applied, and nothing is committed.  (The transaction stays open unless
\* the caller itself ends it while the call is in progress.)
C2_NoNestedTransaction ==
    [][(BuildStep /\ run.inTx) =>
          /\ ~run.transaction /\ ~run.began
          /\ r'.orm.inTx = r.orm.inTx
          /\ db' = db
          /\ Returning =>
                 LET statements == StatementsOf(r, ret')
                     all == Run(run.before, statements, 1, FaultOf(ret'))
                 IN  /\ ret'.op \in MutatingOps
                     /\ ~ret'.began /\ ~ret'.committed /\ ~ret'.rolledBack
                     /\ tx' = tx
                     /\ (ret'.buildErr # Nil => /\ ret'.err # Nil
                                                /\ ret'.err.cause = ret'.buildErr)
                     /\ (ret'.buildErr = Nil => ret'.err = Nil)
                     /\ run.alone => /\ r'.orm.inTx
                                     /\ tx' = all.db
                                     /\ ret'.failedAt = all.failedAt
                                     /\ ret'.buildErr = all.err]_vars

\* Inside the caller's transaction a build, alone at work, failed on its
\* second statement; the first one is still applied and the transaction is
\* still open
C2_Witness ==
    /\ ret.op \in MutatingOps
    /\ ret.inTx
    /\ ret.alone
    /\ ret.failedAt = 2
    /\ ret.err # Nil
    /\ r.orm.inTx
    /\ tx # db

\* C3: in every reachable state the Schema's grammar, processor,
\* DriverSchema, prefix and schema name are the ones configured for the
\* connection its Orm handle names (so also after SetConnection).
C3_BoundToNamedConnection ==
    r # NoSchema =>
        LET name == GetConnection(r)
            driver == GetString(ConfigStore, <<name, "driver">>, "")
            prefix == GetString(ConfigStore, <<name, "prefix">>, <<>>)
        IN  /\ r.grammar.dialect = driver
            /\ r.processor.dialect = driver
            /\ r.DriverSchema.dialect = driver
            /\ r.DriverSchema.orm = name
            /\ r.grammar.prefix = prefix
            /\ r.prefix = prefix
            /\ driver = DriverPostgres =>
                   r.schema = GetString(ConfigStore, <<name, "schema">>, Public)

\* C4 as stated: whenever the underlying call fails, the listings are empty,
\* every Has* is false (HasColumns for every column list, the empty one
\* included) and the failure is logged.
C4_NegativeOnFailure ==
    (ret.op \in {"GetColumnListing", "GetIndexListing", "GetTableListing",
                 "HasColumn", "HasColumns", "HasIndex", "HasTable", "HasType",
                 "HasView"}
        /\ Failed(ret.call.response)) =>
        /\ ret.op \in {"GetColumnListing", "GetIndexListing", "GetTableListing"} =>
               ret.val = <<>>
        /\ ret.op \in {"HasColumn", "HasColumns", "HasIndex", "HasTable", "HasType",
                       "HasView"} => ret.val = FALSE
        /\ Len(log) = 1

\* The error a log message reports
Reported(message) ==
    IF message.args = <<>> THEN message.format.cause
    ELSE message.args[Len(message.args)]

\* C4, amended: whenever the underlying call fails, the listings are empty,
\* HasColumn, HasIndex, HasTable, HasType and HasView are false, HasColumns
\* is false for every non-empty column list and true for the empty one, and
\* exactly one message carrying the error goes to the logging sink; nothing
\* is propagated.
C4_NegativeOnFailureAmended ==
    (ret.op \in {"GetColumnListing", "GetIndexListing", "GetTableListing",
                 "HasColumn", "HasColumns", "HasIndex", "HasTable", "HasType",
                 "HasView"}
        /\ Failed(ret.call.response)) =>
        /\ ret.op \in {"GetColumnListing", "GetIndexListing", "GetTableListing"} =>
               ret.val = <<>>
        /\ ret.op \in {"HasColumn", "HasIndex", "HasTable", "HasType", "HasView"} =>
               ret.val = FALSE
        /\ ret.op = "HasColumns" => ret.val = (ret.call.columns = <<>>)
        /\ Len(log) = 1
        /\ Reported(log[1]) = ret.call.response.err

\* GetColumns failed and HasColumns was asked about no column at all
C4_Witness ==
    /\ ret.op = "HasColumns"
    /\ Failed(ret.call.response)
    /\ ret.call.columns = <<>>
    /\ ret.val = TRUE
    /\ Len(log) = 1

\* The kind a mutating operation wraps a build error in
WrapKind(op) ==
    CASE op = "Create"       -> "SchemaFailedToCreateTable"
      [] op = "Drop"         -> "SchemaFailedToDropTable"
      [] op = "DropIfExists" -> "SchemaFailedToDropTable"
      [] op = "DropColumns"  -> "SchemaFailedToDropColumns"
      [] op = "Rename"       -> "SchemaFailedToRenameTable"
      [] op = "Table"        -> "SchemaFailedToChangeTable"

\* C5: a mutating operation returns nil exactly when its build returned nil
\* and otherwise the build's error wrapped in the operation's kind with the
\* table name the caller gave; GetForeignKeys and Sql return the query
\* engine's error as it is.
C5_ErrorPolicy ==
    /\ ret.op \in MutatingOps =>
           /\ (ret.err = Nil) <=> (ret.buildErr = Nil)
           /\ ret.buildErr # Nil =>
                  ret.err = [kind |-> WrapKind(ret.op), table |-> ret.table,
                             cause |-> ret.buildErr]
    /\ ret.op \in {"GetForeignKeys", "Sql"} => ret.err = ret.engineErr

\* A DropIfExists whose statement the engine failed on returned the engine's
\* error wrapped as a failure to drop the table it was given
C5_Witness ==
    /\ ret.op = "DropIfExists"
    /\ Contains(ret.table, Dot)
    /\ ret.buildErr = ConnectionLost
    /\ ret.err = SchemaFailedToDropTable(ret.table, ConnectionLost)

\* The answer the matching rule gives for a name split at its last dot into
\* a schema part and a table part; exact says whether an empty schema part
\* must be matched like any other
Matches(name, prefix, tables, exact) ==
    IF Contains(name, Dot)
    THEN \E k \in 1..Len(name) :
            /\ name[k] = Dot
            /\ \A j \in (k + 1)..Len(name) : name[j] # Dot
            /\ LET schemaPart == SubSeq(name, 1, k - 1)
                   tablePart == SubSeq(name, k + 1, Len(name))
               IN  \E t \in tables :
                       /\ t.Name = prefix \o tablePart
                       /\ (exact \/ schemaPart # <<>>) => t.Schema = schemaPart
    ELSE \E t \in tables : t.Name = prefix \o name

\* C6 as stated: for a name schema.table HasTable is true iff some reported
\* table has Name = prefix + table and Schema = schema; for a name without
\* a dot iff some reported table has Name = prefix + name.
C6_HasTableMatch ==
    (ret.op = "HasTable" /\ ~Failed(ret.call.response)) =>
        ret.val = Matches(ret.call.name, r.prefix, ToSet(ret.call.response.val),
                          TRUE)

\* C6, amended: the name is split at its last dot; when the part before it
\* is not empty HasTable is true iff some reported table has Name = prefix +
\* table part and Schema = that part exactly; when the name has no dot, or
\* nothing stands before its last dot, iff some reported table has Name =
\* prefix + table part, whatever its Schema.  The prefix goes on the table
\* part only.
C6_HasTableMatchAmended ==
    (ret.op = "HasTable" /\ ~Failed(ret.call.response)) =>
        ret.val = Matches(ret.call.name, r.prefix, ToSet(ret.call.response.val),
                          FALSE)

\* HasTable found a table for a name that starts with a dot, under a prefix
C6_Witness ==
    /\ ret.op = "HasTable"
    /\ ret.call.name[1] = Dot
    /\ r.prefix # <<>>
    /\ ret.val = TRUE

\* C7 as stated: after a Create that returned nil, HasTable of the same name
\* is true, for unqualified and schema-qualified names, every prefix and
\* every callback.
C7_CreateThenHasTable ==
    (ret.op = "Create" /\ ret.err = Nil) => Has(ret.table)

\* The callback only adds and drops columns: it calls none of the
\* table-level Drop, DropIfExists and Rename on the blueprint
KeepsTable(callback) ==
    \A i \in 1..Len(callback) :
        callback[i].name \notin {"drop", "dropIfExists", "rename"}

\* C7, amended: after a Create that returned nil and whose callback called
\* neither Drop nor DropIfExists nor Rename on the blueprint, HasTable of the
\* same name is true, for unqualified and schema-qualified names and every
\* prefix: a table stands under the name's table part with the prefix in
\* front, in the schema the name gives (the connection's when it gives none).
C7_CreateThenHasTableAmended ==
    (ret.op = "Create" /\ ret.err = Nil /\ KeepsTable(ret.callback)) =>
        /\ Has(ret.table)
        /\ \E id \in DOMAIN Visible :
               IF Contains(ret.table, Dot)
               THEN \E k \in 1..Len(ret.table) :
                        /\ ret.table[k] = Dot
                        /\ \A j \in (k + 1)..Len(ret.table) : ret.table[j] # Dot
                        /\ id.Schema = SubSeq(ret.table, 1, k - 1)
                        /\ id.Name = r.prefix \o SubSeq(ret.table, k + 1, Len(ret.table))
               ELSE /\ id.Name = r.prefix \o ret.table
                    /\ id.Schema = CurrentSchema(r)

\* A schema-qualified table was created under a non-empty prefix by a Create
\* whose callback added a column
C7_Witness ==
    /\ ret.op = "Create"
    /\ ret.err = Nil
    /\ Contains(ret.table, Dot)
    /\ r.prefix # <<>>
    /\ ret.callback # <<>>
    /\ KeepsTable(ret.callback)
    /\ Denoted(ret.table) \in DOMAIN db
    /\ db[Denoted(ret.table)] # {}

\* C8 as stated: after a Rename(from, to) that returned nil HasTable(from) is
\* false and HasTable(to) is true.
C8_RenameMoves ==
    (ret.op = "Rename" /\ ret.err = Nil) => (~Has(ret.table) /\ Has(ret.to))

\* C8, amended: after a Rename(from, to) that returned nil HasTable(to) is
\* true, the table from denoted is gone, and HasTable(from) is false unless
\* a table of the same prefixed name stands in another schema; after a
\* Rename that returned an error outside a transaction HasTable(from) and
\* HasTable(to) are what they were.  (Outside a transaction no round trip of
\* a Rename but its commit changes what HasTable answers; before and after
\* the call are compared for a call that was alone at work.)
C8_RenameMovesAmended ==
    [][(BuildStep /\ run.op = "Rename") =>
          IF Returning /\ ret'.err = Nil
          THEN /\ HasIn(r', Visible', ret'.to)
               /\ Denoted(ret'.table) \notin DOMAIN Visible'
               /\ HasIn(r', Visible', ret'.table) <=> HomonymIn(Visible', ret'.table)
               /\ run.alone => Denoted(ret'.table) \in DOMAIN run.before
          ELSE ~run.inTx =>
                   /\ HasIn(r', Visible', run.table) = HasIn(r, Visible, run.table)
                   /\ HasIn(r', Visible', run.to) = HasIn(r, Visible, run.to)
                   /\ run.alone =>
                          /\ HasIn(r', Visible', run.table) = HasIn(r, run.before, run.table)
                          /\ HasIn(r', Visible', run.to) = HasIn(r, run.before, run.to)]_vars

\* A table was renamed while a table of its name stood in another schema
C8_Witness ==
    /\ ret.op = "Rename"
    /\ ret.err = Nil
    /\ ret.alone
    /\ Has(ret.to)
    /\ Has(ret.table)
    /\ Denoted(ret.table) \notin DOMAIN db

\* C9 as stated: on a table that does not exist DropIfExists returns nil and
\* Drop returns FailedToDropTable naming it, both leaving the tables as they
\* were; on a table that exists both return nil and HasTable is false after.
\* (For a call that was alone at work and whose statement the engine
\* executed.)
C9_DropMissingOrExisting ==
    [][(Returning /\ run.op \in {"Drop", "DropIfExists"} /\ run.alone
            /\ FaultOf(ret') = 0) =>
          IF Denoted(ret'.table) \notin DOMAIN run.before
          THEN /\ Visible' = run.before
               /\ ret'.op = "DropIfExists" => ret'.err = Nil
               /\ ret'.op = "Drop" =>
                      /\ ret'.err # Nil
                      /\ ret'.err.kind = "SchemaFailedToDropTable"
                      /\ ret'.err.table = ret'.table
          ELSE /\ ret'.err = Nil
               /\ ~HasIn(r', Visible', ret'.table)]_vars

\* The handle the call in progress sends its statements on sees this
Handle == IF run.transaction THEN own ELSE IF run.inTx THEN tx ELSE db

\* C9, amended: on a table that does not exist DropIfExists returns nil and
\* Drop returns FailedToDropTable naming it, both leaving the tables as they
\* were; on a table that exists both return nil, that table is gone and the
\* others are as they were, and HasTable is false after unless a table of
\* the same prefixed name stands in another schema.  (When the engine itself
\* fails on the statement, both return its error as FailedToDropTable naming
\* the table and leave the tables as they were.  Before and after the call
\* are compared for a call that was alone at work; in every case the table
\* exists or not as the handle sees it when the statement reaches it.)
C9_DropMissingOrExistingAmended ==
    [][(BuildStep /\ run.op \in {"Drop", "DropIfExists"}) =>
          /\ (run.pc = "exec") =>
                 IF run'.err = ConnectionLost
                 THEN Handle' = Handle
                 ELSE IF Denoted(run.table) \notin DOMAIN Handle
                 THEN /\ Handle' = Handle
                      /\ run.op = "DropIfExists" => run'.err = Nil
                      /\ run.op = "Drop" => run'.err # Nil
                 ELSE /\ run'.err = Nil
                      /\ Handle' = WithoutTable(Handle, Denoted(run.table))
          /\ Returning =>
                 /\ ret'.err # Nil =>
                        /\ ret'.err = SchemaFailedToDropTable(ret'.table, ret'.buildErr)
                        /\ Visible' = Visible
                 /\ run.alone =>
                        IF FaultOf(ret') # 0
                        THEN /\ Visible' = run.before
                             /\ ret'.err = SchemaFailedToDropTable(ret'.table,
                                                                   ConnectionLost)
                        ELSE IF Denoted(ret'.table) \notin DOMAIN run.before
                        THEN /\ Visible' = run.before
                             /\ ret'.op = "DropIfExists" => ret'.err = Nil
                             /\ ret'.op = "Drop" =>
                                    /\ ret'.err # Nil
                                    /\ ret'.err.kind = "SchemaFailedToDropTable"
                                    /\ ret'.err.table = ret'.table
                        ELSE /\ ret'.err = Nil
                             /\ Visible' = WithoutTable(run.before,
                                                        Denoted(ret'.table))
                             /\ HasIn(r', Visible', ret'.table)
                                    <=> HomonymIn(Visible', ret'.table)]_vars

\* A table was dropped while a table of its name stood in another schema
C9_Witness ==
    /\ ret.op = "Drop"
    /\ ret.err = Nil
    /\ ret.alone
    /\ Denoted(ret.table) \notin DOMAIN db
    /\ Has(ret.table)

\* C10: constructing a Schema for a connection whose driver is none of
\* postgres, mysql, sqlserver, sqlite panics with SchemaDriverNotSupported
\* and returns no Schema; for each of the four, construction succeeds with
\* the Grammar, Processor and DriverSchema of that driver, built with the
\* connection's prefix (and, for postgres, the schema name, "public" by
\* default).
C10_DriverDispatch ==
    ret.op \in {"NewSchema", "Connection"} =>
        LET driver == GetString(ConfigStore, <<ret.name, "driver">>, "")
            prefix == GetString(ConfigStore, <<ret.name, "prefix">>, <<>>)
            schema == GetString(ConfigStore, <<ret.name, "schema">>, Public)
            made == ret.schema
        IN  IF driver \notin {"postgres", "mysql", "sqlserver", "sqlite"}
            THEN /\ ret.panic
                 /\ ret.err = SchemaDriverNotSupported(driver)
                 /\ made = NoSchema
            ELSE /\ ~ret.panic
                 /\ r = made
                 /\ GetConnection(made) = ret.name
                 /\ made.grammar = [dialect |-> driver, prefix |-> prefix]
                 /\ made.processor = [dialect |-> driver]
                 /\ made.DriverSchema.dialect = driver
                 /\ made.DriverSchema.grammar = made.grammar
                 /\ made.DriverSchema.prefix = prefix
                 /\ made.DriverSchema.orm = ret.name
                 /\ made.prefix = prefix
                 /\ driver = "postgres" =>
                        /\ made.schema = schema
                        /\ made.DriverSchema.schema = schema

\* Connection was asked for a connection configured with an unknown driver
C10_Witness ==
    /\ ret.op = "Connection"
    /\ ret.name = "ora"
    /\ ret.panic
    /\ r # NoSchema

====
